---- MODULE Spec2Model ----
(***************************************************************************)
(* Maze generator and solvers of app.py: generate_maze (randomized         *)
(* recursive backtracker with loop injection), bfs, dfs, astar and         *)
(* render_maze, as state machines over the program's variables.            *)
(***************************************************************************)
EXTENDS Integers, Sequences, FiniteSets, TLC

VARIABLES
    pc,         \* position in the program
    width, height, seed, loops,   \* arguments of generate_maze / the solvers
    maze,       \* dict (x, y) -> WALL | EMPTY
    start, goal,
    queue,      \* bfs: deque of cells
    stack,      \* dfs: list of cells
    open_set,   \* astar: heap of (f, cell)
    g,          \* astar: dict cell -> cost so far
    parents,    \* the running solver's dict cell -> predecessor | None
    path, node, \* the running solver's reconstruction locals
    bfs_path, dfs_path, astar_path,  \* results of the three solvers
    rng,        \* state of the shared generator of module random: (seed, draws)
    oracle,     \* the generator's outputs seen so far: (seed, draws, n) -> value
    visited,    \* generate_maze: set of visited rooms
    frames,     \* generate_maze: the (x, y) of the active calls of visit
    loop_i,     \* generate_maze: iterations of the loop injection done
    results,    \* the grids returned by the calls of generate_maze so far
    rendered    \* the texts returned by the calls of render_maze so far

solveVars == <<queue, stack, open_set, g, parents, path, node,
               bfs_path, dfs_path, astar_path>>
argVars == <<width, height, seed, loops, maze, start, goal>>
genVars == <<rng, oracle, visited, frames, loop_i, results>>
\* what the solvers leave alone
outerVars == <<argVars, genVars, rendered>>
vars == <<pc, argVars, solveVars, genVars, rendered>>

----------------------------------------------------------------------------
(* Bounds of the model *)
MaxCells == 10      \* solver inputs: grids of at most MaxCells cells ...
MaxWalls == 1       \* ... with at most MaxWalls WALL cells, and
MaxDenseCells == 6  \* every grid of at most MaxDenseCells cells
MaxDim == 5         \* generate_maze: width and height of at most MaxDim
MaxLoops == 1       \* generate_maze: loops of at most MaxLoops
MaxSeed == 1        \* generate_maze: seeds 0 .. MaxSeed
MaxCalls == 2       \* calls of generate_maze in a row
MaxRenderCells == 4 \* render_maze: grids of at most MaxRenderCells cells
MaxPathLen == 2     \* render_maze: paths of at most MaxPathLen cells

----------------------------------------------------------------------------
(* Constants of the program *)
EMPTY == "EMPTY"
WALL == "WALL"
START == "START"
END == "END"
PATHMARK == "PATH"
NEWLINE == "\n"
NoneV == <<>>       \* Python's None (falsy; every cell tuple is truthy)

Dirs == << <<1, 0>>, <<-1, 0>>, <<0, 1>>, <<0, -1>> >>

Rect(w, h) == (0 .. w - 1) \X (0 .. h - 1)

\* 0 <= nx < width and 0 <= ny < height
InBounds(n) == 0 <= n[1] /\ n[1] < width /\ 0 <= n[2] /\ n[2] < height

\* dict.get(k): the value, or None when the key is absent
Get(d, k) == IF k \in DOMAIN d THEN d[k] ELSE NoneV

\* d[k] = v
DictSet(d, k, v) == (k :> v) @@ d

Move(c, d) == <<c[1] + d[1], c[2] + d[2]>>

\* the solvers' neighbour rule: in bounds and not WALL
Passable(n) == InBounds(n) /\ maze[n] # WALL

RECURSIVE Reverse(_)
Reverse(s) == IF s = <<>> THEN <<>> ELSE Append(Reverse(Tail(s)), Head(s))

Abs(i) == IF i < 0 THEN -i ELSE i

----------------------------------------------------------------------------
(* bfs *)

\* the for loop over the four directions of one dequeued cell
RECURSIVE BfsExpand(_, _, _, _)
BfsExpand(cur, i, par, q) ==
    IF i > Len(Dirs) THEN <<par, q>>
    ELSE LET n == Move(cur, Dirs[i]) IN
         IF Passable(n) /\ n \notin DOMAIN par
         THEN BfsExpand(cur, i + 1, DictSet(par, n, cur), Append(q, n))
         ELSE BfsExpand(cur, i + 1, par, q)

BfsCall ==
    /\ pc = "bfs"
    /\ queue' = <<start>>
    /\ parents' = (start :> NoneV)
    /\ pc' = "bfs_loop"
    /\ UNCHANGED <<outerVars, stack, open_set, g, path, node,
                   bfs_path, dfs_path, astar_path>>

\* one iteration of `while queue`, or the loop's exit
BfsIter ==
    /\ pc = "bfs_loop"
    /\ IF queue = <<>> \/ Head(queue) = goal
       THEN /\ queue' = (IF queue = <<>> THEN queue ELSE Tail(queue))
            /\ path' = <<>>
            /\ node' = goal
            /\ pc' = "bfs_walk"
            /\ UNCHANGED parents
       ELSE LET r == BfsExpand(Head(queue), 1, parents, Tail(queue)) IN
            /\ parents' = r[1]
            /\ queue' = r[2]
            /\ UNCHANGED <<path, node, pc>>
    /\ UNCHANGED <<outerVars, stack, open_set, g, bfs_path, dfs_path, astar_path>>

\* one iteration of `while node`
Walk(at) ==
    /\ pc = at
    /\ node # NoneV
    /\ path' = Append(path, node)
    /\ node' = Get(parents, node)
    /\ UNCHANGED <<pc, outerVars, queue, stack, open_set, g, parents,
                   bfs_path, dfs_path, astar_path>>

BfsWalk == Walk("bfs_walk")

BfsReturn ==
    /\ pc = "bfs_walk"
    /\ node = NoneV
    /\ bfs_path' = Reverse(path)
    /\ pc' = "dfs"
    /\ UNCHANGED <<outerVars, queue, stack, open_set, g, parents, path, node,
                   dfs_path, astar_path>>

----------------------------------------------------------------------------
(* dfs *)

RECURSIVE DfsExpand(_, _, _, _)
DfsExpand(cur, i, par, s) ==
    IF i > Len(Dirs) THEN <<par, s>>
    ELSE LET n == Move(cur, Dirs[i]) IN
         IF Passable(n) /\ n \notin DOMAIN par
         THEN DfsExpand(cur, i + 1, DictSet(par, n, cur), Append(s, n))
         ELSE DfsExpand(cur, i + 1, par, s)

\* list.pop(): the last element and the rest
Top(s) == s[Len(s)]
Pop(s) == SubSeq(s, 1, Len(s) - 1)

DfsCall ==
    /\ pc = "dfs"
    /\ stack' = <<start>>
    /\ parents' = (start :> NoneV)
    /\ pc' = "dfs_loop"
    /\ UNCHANGED <<outerVars, queue, open_set, g, path, node,
                   bfs_path, dfs_path, astar_path>>

DfsIter ==
    /\ pc = "dfs_loop"
    /\ IF stack = <<>> \/ Top(stack) = goal
       THEN /\ stack' = (IF stack = <<>> THEN stack ELSE Pop(stack))
            /\ path' = <<>>
            /\ node' = goal
            /\ pc' = "dfs_walk"
            /\ UNCHANGED parents
       ELSE LET r == DfsExpand(Top(stack), 1, parents, Pop(stack)) IN
            /\ parents' = r[1]
            /\ stack' = r[2]
            /\ UNCHANGED <<path, node, pc>>
    /\ UNCHANGED <<outerVars, queue, open_set, g, bfs_path, dfs_path, astar_path>>

DfsWalk == Walk("dfs_walk")

DfsReturn ==
    /\ pc = "dfs_walk"
    /\ node = NoneV
    /\ dfs_path' = Reverse(path)
    /\ pc' = "astar"
    /\ UNCHANGED <<outerVars, queue, stack, open_set, g, parents, path, node,
                   bfs_path, astar_path>>

----------------------------------------------------------------------------
(* astar *)

\* Python's order on the heap entries (f, (x, y)): lexicographic
EntryLess(a, b) ==
    \/ a[1] < b[1]
    \/ /\ a[1] = b[1]
       /\ \/ a[2][1] < b[2][1]
          \/ a[2][1] = b[2][1] /\ a[2][2] < b[2][2]

\* heapq.heappop: the least entry, and the heap without one copy of it
HeapMin(h) == CHOOSE i \in 1 .. Len(h) :
                 /\ \A j \in 1 .. Len(h) : ~EntryLess(h[j], h[i])
                 /\ \A j \in 1 .. i - 1 : h[j] # h[i]
HeapRest(h) == LET i == HeapMin(h) IN SubSeq(h, 1, i - 1) \o SubSeq(h, i + 1, Len(h))

\* heapq.heappush
HeapPush(h, e) == Append(h, e)

\* abs(nx - goal[0]) + abs(ny - goal[1])
Heuristic(n) == Abs(n[1] - goal[1]) + Abs(n[2] - goal[2])

\* mutant: a cell is pushed once only, a cheaper cost found later is dropped
CheaperUnseenOnly(gg, n, new_cost) == n \notin DOMAIN gg

\* mutant: the comparison is turned around
CheaperFlipped(gg, n, new_cost) == n \notin DOMAIN gg \/ new_cost > gg[n]

\* (nx, ny) not in g or new_cost < g[(nx, ny)]
Cheaper(gg, n, new_cost) == n \notin DOMAIN gg \/ new_cost < gg[n]

RECURSIVE AstarExpand(_, _, _, _, _)
AstarExpand(cur, i, gg, par, h) ==
    IF i > Len(Dirs) THEN <<gg, par, h>>
    ELSE LET n == Move(cur, Dirs[i])
             new_cost == gg[cur] + 1
         IN
         IF Passable(n) /\ Cheaper(gg, n, new_cost)
         THEN AstarExpand(cur, i + 1, DictSet(gg, n, new_cost),
                          DictSet(par, n, cur),
                          HeapPush(h, <<new_cost + Heuristic(n), n>>))
         ELSE AstarExpand(cur, i + 1, gg, par, h)

AstarCall ==
    /\ pc = "astar"
    /\ open_set' = << <<0, start>> >>
    /\ g' = (start :> 0)
    /\ parents' = (start :> NoneV)
    /\ pc' = "astar_loop"
    /\ UNCHANGED <<outerVars, queue, stack, path, node,
                   bfs_path, dfs_path, astar_path>>

AstarIter ==
    /\ pc = "astar_loop"
    /\ IF open_set = <<>> \/ open_set[HeapMin(open_set)][2] = goal
       THEN /\ open_set' = (IF open_set = <<>> THEN open_set ELSE HeapRest(open_set))
            /\ path' = <<>>
            /\ node' = goal
            /\ pc' = "astar_walk"
            /\ UNCHANGED <<g, parents>>
       ELSE LET current == open_set[HeapMin(open_set)][2]
                r == AstarExpand(current, 1, g, parents, HeapRest(open_set))
            IN
            /\ g' = r[1]
            /\ parents' = r[2]
            /\ open_set' = r[3]
            /\ UNCHANGED <<path, node, pc>>
    /\ UNCHANGED <<outerVars, queue, stack, bfs_path, dfs_path, astar_path>>

AstarWalk == Walk("astar_walk")

AstarReturn ==
    /\ pc = "astar_walk"
    /\ node = NoneV
    /\ astar_path' = Reverse(path)
    /\ pc' = "solved"
    /\ UNCHANGED <<outerVars, queue, stack, open_set, g, parents, path, node,
                   bfs_path, dfs_path>>

----------------------------------------------------------------------------
(* The solvers on every small grid, start and goal *)

Shapes == {s \in (1 .. MaxCells) \X (1 .. MaxCells) : s[1] * s[2] <= MaxCells}

WallCount(m) == Cardinality({c \in DOMAIN m : m[c] = WALL})

\* generate_maze is not running
GenIdle ==
    /\ rng = <<-1, 0>>
    /\ oracle = <<>>
    /\ visited = {}
    /\ frames = <<>>
    /\ loop_i = 0
    /\ results = <<>>

SolveIdle ==
    /\ queue = <<>>
    /\ stack = <<>>
    /\ open_set = <<>>
    /\ g = <<>>
    /\ parents = <<>>
    /\ path = <<>>
    /\ node = NoneV
    /\ bfs_path = <<>>
    /\ dfs_path = <<>>
    /\ astar_path = <<>>

InitSolve ==
    /\ \E s \in Shapes :
         /\ width = s[1]
         /\ height = s[2]
         /\ maze \in [Rect(s[1], s[2]) -> {WALL, EMPTY}]
         /\ s[1] * s[2] <= MaxDenseCells \/ WallCount(maze) <= MaxWalls
         /\ start \in Rect(s[1], s[2])
         /\ goal \in Rect(s[1], s[2])
    /\ seed = 0
    /\ loops = 0
    /\ pc = "bfs"
    /\ SolveIdle
    /\ GenIdle
    /\ rendered = <<>>

NextSolve ==
    \/ BfsCall \/ BfsIter \/ BfsWalk \/ BfsReturn
    \/ DfsCall \/ DfsIter \/ DfsWalk \/ DfsReturn
    \/ AstarCall \/ AstarIter \/ AstarWalk \/ AstarReturn

SpecSolve == InitSolve /\ [][NextSolve]_vars

----------------------------------------------------------------------------
(* The shared generator of module random.  Its output is a function of the *)
(* seed, of the number of draws since seeding and of the range asked for;   *)
(* which function is not known, so each value is chosen when it is first    *)
(* drawn and kept in oracle from then on.                                   *)

\* mutant: the generator is not seeded again
NotReseeded(r, s) == r

\* random.seed(s): the state after seeding depends on s alone
Seeded(r, s) == <<s, 0>>

RandKey(r, n) == <<r[1], r[2], n>>

\* _randbelow(n) may return v in state r
RandBelow(r, n, v) ==
    /\ v \in 0 .. n - 1
    /\ RandKey(r, n) \in DOMAIN oracle => v = oracle[RandKey(r, n)]

Advance(r) == <<r[1], r[2] + 1>>

\* on import the generator is seeded from the system's entropy: a state that
\* no call of random.seed(s) with s >= 0 gives
EntropyState == <<-1, 0>>

----------------------------------------------------------------------------
(* generate_maze *)

\* mutant: the start room is not marked visited
InitialVisitedNone == {}

\* visited = {(1,1)}
InitialVisited == {<<1, 1>>}

\* mutant: a room in the last row still looks for a room below it
HasRoomBelowOffByOne(y) == y < height - 1

\* y < height - 2
HasRoomBelow(y) == y < height - 2

\* the candidate (nx, ny, wx, wy) of visit(x, y), in the order of the code
Neighbors(x, y) ==
       (IF y > 1 /\ <<x, y - 2>> \notin visited
        THEN << <<x, y - 2, x, y - 1>> >> ELSE <<>>)
    \o (IF HasRoomBelow(y) /\ <<x, y + 2>> \notin visited
        THEN << <<x, y + 2, x, y + 1>> >> ELSE <<>>)
    \o (IF x > 1 /\ <<x - 2, y>> \notin visited
        THEN << <<x - 2, y, x - 1, y>> >> ELSE <<>>)
    \o (IF x < width - 2 /\ <<x + 2, y>> \notin visited
        THEN << <<x + 2, y, x + 1, y>> >> ELSE <<>>)

\* the call generate_maze(width, height, seed, loops) up to the entry of
\* visit(1, 1)
GenCall ==
    /\ pc = "generate"
    /\ rng' = Seeded(rng, seed)
    /\ maze' = DictSet([c \in Rect(width, height) |-> WALL], <<1, 1>>, EMPTY)
    /\ visited' = InitialVisited
    /\ frames' = << <<1, 1>> >>
    /\ loop_i' = 0
    /\ pc' = "visit"
    /\ UNCHANGED <<width, height, seed, loops, start, goal, oracle, results,
                   solveVars, rendered>>

\* visit(x, y) picks a neighbour, carves the wall between and enters
\* visit(nx, ny)
VisitCarve ==
    /\ pc = "visit"
    /\ LET x == Top(frames)[1]
           y == Top(frames)[2]
           neighbors == Neighbors(x, y)
       IN
       /\ neighbors # <<>>
       /\ \E v \in 0 .. Len(neighbors) - 1 :
            /\ RandBelow(rng, Len(neighbors), v)
            /\ oracle' = DictSet(oracle, RandKey(rng, Len(neighbors)), v)
            /\ rng' = Advance(rng)
            /\ LET nb == neighbors[v + 1] IN
               /\ maze' = DictSet(DictSet(maze, <<nb[3], nb[4]>>, EMPTY),
                                  <<nb[1], nb[2]>>, EMPTY)
               /\ visited' = visited \cup {<<nb[1], nb[2]>>}
               /\ frames' = Append(frames, <<nb[1], nb[2]>>)
    /\ UNCHANGED <<pc, width, height, seed, loops, start, goal, loop_i, results,
                   solveVars, rendered>>

\* visit(x, y) finds no neighbour and returns
VisitReturn ==
    /\ pc = "visit"
    /\ Neighbors(Top(frames)[1], Top(frames)[2]) = <<>>
    /\ frames' = Pop(frames)
    /\ pc' = (IF Len(frames) = 1 THEN "loops" ELSE "visit")
    /\ UNCHANGED <<argVars, rng, oracle, visited, loop_i, results,
                   solveVars, rendered>>

\* one iteration of the loop injection: x, then y, then the cell;
\* randrange(1, n) of an empty range raises ValueError
AddLoop ==
    /\ pc = "loops"
    /\ loop_i < loops
    /\ IF width - 2 <= 0
       THEN /\ pc' = "ValueError"
            /\ UNCHANGED <<maze, rng, oracle, loop_i>>
       ELSE \E vx \in 0 .. width - 3 :
            LET r2 == Advance(rng)
                o2 == DictSet(oracle, RandKey(rng, width - 2), vx)
                x == 1 + vx
            IN
            /\ RandBelow(rng, width - 2, vx)
            /\ IF height - 2 <= 0
               THEN /\ pc' = "ValueError"
                    /\ rng' = r2
                    /\ oracle' = o2
                    /\ UNCHANGED <<maze, loop_i>>
               ELSE \E vy \in 0 .. height - 3 :
                    LET y == 1 + vy IN
                    /\ RandKey(r2, height - 2) \in DOMAIN o2 =>
                          vy = o2[RandKey(r2, height - 2)]
                    /\ oracle' = DictSet(o2, RandKey(r2, height - 2), vy)
                    /\ rng' = Advance(r2)
                    /\ maze' = (IF maze[<<x, y>>] = WALL
                                THEN DictSet(maze, <<x, y>>, EMPTY) ELSE maze)
                    /\ loop_i' = loop_i + 1
                    /\ UNCHANGED pc
    /\ UNCHANGED <<width, height, seed, loops, start, goal, visited, frames,
                   results, solveVars, rendered>>

\* return maze
GenReturn ==
    /\ pc = "loops"
    /\ loop_i = loops
    /\ results' = Append(results, maze)
    /\ pc' = "generated"
    /\ UNCHANGED <<argVars, rng, oracle, visited, frames, loop_i,
                   solveVars, rendered>>

----------------------------------------------------------------------------
(* Calls of generate_maze, one after the other on the shared generator     *)

Seeds == 0 .. MaxSeed

\* the states module random can be in between two calls: the one the last
\* call left, the one of the import, or the one a call with another seed left
StatesBetweenCalls ==
    {rng, EntropyState} \cup {<<s, rng[2]>> : s \in Seeds}

\* the button is pressed again with the inputs unchanged
GenAgain ==
    /\ pc = "generated"
    /\ Len(results) < MaxCalls
    /\ rng' \in StatesBetweenCalls
    /\ pc' = "generate"
    /\ UNCHANGED <<argVars, oracle, visited, frames, loop_i, results,
                   solveVars, rendered>>

InitGen ==
    /\ width \in 1 .. MaxDim
    /\ height \in 1 .. MaxDim
    /\ seed \in Seeds
    /\ loops \in 0 .. MaxLoops
    /\ pc = "generate"
    /\ maze = <<>>
    /\ start = NoneV
    /\ goal = NoneV
    /\ rng = EntropyState
    /\ oracle = <<>>
    /\ visited = {}
    /\ frames = <<>>
    /\ loop_i = 0
    /\ results = <<>>
    /\ SolveIdle
    /\ rendered = <<>>

NextGen == GenCall \/ VisitCarve \/ VisitReturn \/ AddLoop \/ GenReturn \/ GenAgain

SpecGen == InitGen /\ [][NextGen]_vars

----------------------------------------------------------------------------
(* render_maze *)

\* path=None, as a value apart from every list of cells
NonePath == << NoneV >>

\* `path and ...`: neither None nor the empty list
PathGiven(p) == p # NonePath /\ p # <<>>

InPath(p, c) == \E i \in 1 .. Len(p) : p[i] = c

\* mutant: the path marker is drawn over start and goal too
RenderCellPathFirst(m, p, s, t, c) ==
    IF PathGiven(p) /\ InPath(p, c) THEN PATHMARK
    ELSE IF c = s THEN START
    ELSE IF c = t THEN END
    ELSE IF m[c] = WALL THEN WALL
    ELSE EMPTY

\* the symbol of cell c: the if / elif chain of the inner loop
RenderCell(m, p, s, t, c) ==
    IF PathGiven(p) /\ InPath(p, c) /\ c \notin {s, t} THEN PATHMARK
    ELSE IF c = s THEN START
    ELSE IF c = t THEN END
    ELSE IF m[c] = WALL THEN WALL
    ELSE EMPTY

\* the text of rows y .. h - 1, each followed by a newline
RECURSIVE RenderRows(_, _, _, _, _, _, _)
RenderRows(m, w, h, p, s, t, y) ==
    IF y >= h THEN <<>>
    ELSE [i \in 1 .. w |-> RenderCell(m, p, s, t, <<i - 1, y>>)]
         \o <<NEWLINE>>
         \o RenderRows(m, w, h, p, s, t, y + 1)

RenderMaze(m, w, h, p, s, t) == RenderRows(m, w, h, p, s, t, 0)

\* render_maze(maze, width, height, path, start, goal)
RenderCall ==
    /\ pc = "render"
    /\ rendered' = Append(rendered, RenderMaze(maze, width, height, path, start, goal))
    /\ pc' = "rendered"
    /\ UNCHANGED <<argVars, genVars, solveVars>>

RenderShapes == {s \in (1 .. MaxRenderCells) \X (1 .. MaxRenderCells) :
                    s[1] * s[2] <= MaxRenderCells}

\* every list of at most n elements of S
RECURSIVE ListsUpTo(_, _)
ListsUpTo(S, n) ==
    IF n = 0 THEN {<<>>}
    ELSE LET shorter == ListsUpTo(S, n - 1) IN
         shorter \cup {Append(l, c) : l \in shorter, c \in S}

InitRender ==
    /\ \E s \in RenderShapes :
         /\ width = s[1]
         /\ height = s[2]
         /\ maze \in [Rect(s[1], s[2]) -> {WALL, EMPTY}]
         /\ start \in Rect(s[1], s[2]) \cup {NoneV}
         /\ goal \in Rect(s[1], s[2]) \cup {NoneV}
         /\ path \in ListsUpTo(Rect(s[1], s[2]), MaxPathLen) \cup {NonePath}
    /\ seed = 0
    /\ loops = 0
    /\ pc = "render"
    /\ queue = <<>>
    /\ stack = <<>>
    /\ open_set = <<>>
    /\ g = <<>>
    /\ parents = <<>>
    /\ node = NoneV
    /\ bfs_path = <<>>
    /\ dfs_path = <<>>
    /\ astar_path = <<>>
    /\ GenIdle
    /\ rendered = <<>>

NextRender == RenderCall

SpecRender == InitRender /\ [][NextRender]_vars

----------------------------------------------------------------------------
(* The Generate & Solve pipeline of the page *)

\* mutant: the goal is put on the border
GoalCellOnBorder == <<width - 1, height - 1>>

\* (width-2, height-2)
GoalCell == <<width - 2, height - 2>>

\* start, goal = (1,1), (width-2, height-2)
PipeStart ==
    /\ pc = "generated"
    /\ start' = <<1, 1>>
    /\ goal' = GoalCell
    /\ pc' = "bfs"
    /\ UNCHANGED <<width, height, seed, loops, maze, genVars, solveVars, rendered>>

\* the three st.text(render_maze(maze.copy(), ...)): DFS, BFS, A*
PipeShow ==
    /\ pc = "solved"
    /\ rendered' = << RenderMaze(maze, width, height, dfs_path, start, goal),
                      RenderMaze(maze, width, height, bfs_path, start, goal),
                      RenderMaze(maze, width, height, astar_path, start, goal) >>
    /\ pc' = "done"
    /\ UNCHANGED <<argVars, genVars, solveVars>>

\* the sliders give odd sizes only (step=2)
SliderSizes == {n \in 3 .. MaxDim : n % 2 = 1}

InitPipe ==
    /\ width \in SliderSizes
    /\ height \in SliderSizes
    /\ seed \in Seeds
    /\ loops \in 0 .. MaxLoops
    /\ pc = "generate"
    /\ maze = <<>>
    /\ start = NoneV
    /\ goal = NoneV
    /\ rng = EntropyState
    /\ oracle = <<>>
    /\ visited = {}
    /\ frames = <<>>
    /\ loop_i = 0
    /\ results = <<>>
    /\ SolveIdle
    /\ rendered = <<>>

NextPipe ==
    \/ GenCall \/ VisitCarve \/ VisitReturn \/ AddLoop \/ GenReturn
    \/ PipeStart \/ NextSolve \/ PipeShow

SpecPipe == InitPipe /\ [][NextPipe]_vars

----------------------------------------------------------------------------
(* Vocabulary of the properties *)

BfsReturned == pc \in {"dfs", "dfs_loop", "dfs_walk", "astar", "astar_loop",
                       "astar_walk", "solved", "done"}
DfsReturned == pc \in {"astar", "astar_loop", "astar_walk", "solved", "done"}
AstarReturned == pc \in {"solved", "done"}

\* two cells differ by exactly 1 in exactly one coordinate
Adjacent(a, b) == Abs(a[1] - b[1]) + Abs(a[2] - b[2]) = 1

ValidPath(p) ==
    /\ p[1] = start
    /\ p[Len(p)] = goal
    /\ \A i \in 1 .. Len(p) - 1 : Adjacent(p[i], p[i + 1])
    /\ \A i \in 1 .. Len(p) : p[i] \in DOMAIN maze /\ maze[p[i]] # WALL

\* number of 4-directional moves of a shortest walk from start to goal whose
\* every step enters an in-bounds non-WALL cell; -1 when there is none
RECURSIVE HopsFrom(_, _, _)
HopsFrom(frontier, seen, d) ==
    IF goal \in frontier THEN d
    ELSE IF frontier = {} THEN -1
    ELSE LET nxt == {n \in {Move(c, Dirs[i]) : c \in frontier, i \in 1 .. Len(Dirs)} :
                        Passable(n) /\ n \notin seen}
         IN HopsFrom(nxt, seen \cup nxt, d + 1)
HopDist == HopsFrom({start}, {start}, 0)

\* goal can be reached from start through non-WALL cells
Reachable == start \in DOMAIN maze /\ maze[start] # WALL /\ HopDist >= 0

----------------------------------------------------------------------------
(* Properties of generate_maze *)

OddDims == width >= 3 /\ height >= 3 /\ width % 2 = 1 /\ height % 2 = 1

Interior == (1 .. width - 2) \X (1 .. height - 2)
Border == Rect(width, height) \ Interior

\* cells with both coordinates odd, inside the border
Rooms == {c \in Interior : c[1] % 2 = 1 /\ c[2] % 2 = 1}
\* cells between two adjacent rooms
Connectors == {c \in Interior : (c[1] + c[2]) % 2 = 1}

EmptyCells(m) == {c \in DOMAIN m : m[c] = EMPTY}

\* the cells joined to the frontier by 4-directional moves through S
RECURSIVE Flood(_, _, _)
Flood(frontier, seen, S) ==
    IF frontier = {} THEN seen
    ELSE LET nxt == {n \in {Move(c, Dirs[i]) : c \in frontier, i \in 1 .. Len(Dirs)} :
                        n \in S /\ n \notin seen}
         IN Flood(nxt, seen \cup nxt, S)

PerfectMaze(m) ==
    /\ DOMAIN m = Rect(width, height)
    /\ Rooms \subseteq EmptyCells(m)
    /\ EmptyCells(m) \subseteq Rooms \cup Connectors
    /\ Cardinality(EmptyCells(m) \cap Connectors) = Cardinality(Rooms) - 1
    /\ \A r \in Rooms : Rooms \subseteq Flood({r}, {r}, EmptyCells(m))

Returned == results[Len(results)]

(* C4: with loops = 0 and odd sizes of at least 3, generate_maze returns a *)
(* perfect maze: every room EMPTY, exactly (rooms - 1) connectors EMPTY,    *)
(* every other cell WALL, every room joined to every other through EMPTY.   *)
PerfectMazeWithoutLoops ==
    pc = "generated" /\ loops = 0 /\ OddDims => PerfectMaze(Returned)

PerfectMazeWitness ==
    /\ pc = "generated" /\ loops = 0
    /\ width = 5 /\ height = 5
    /\ Returned[<<1, 2>>] = WALL
    /\ Cardinality(EmptyCells(Returned)) = 7

(* C5: calls of generate_maze with the same (width, height, seed, loops)    *)
(* return the same grid, whatever state the shared generator was left in.   *)
SameArgumentsSameGrid ==
    \A i, j \in 1 .. Len(results) : results[i] = results[j]

\* two calls returned, the second started from another state of the generator
\* than the first, and both drew random numbers
SameGridWitness ==
    /\ pc = "generated"
    /\ Len(results) = 2
    /\ width = 5 /\ height = 5 /\ loops = 1
    /\ rng[2] >= 5
    /\ Cardinality(EmptyCells(Returned)) = 8

(* C7: with an even width or height, or a size below 3, generate_maze      *)
(* returns no grid, and no grid it returns has an EMPTY cell on its outer   *)
(* border.                                                                  *)
InvalidDimensionsRejected ==
    /\ ~OddDims => pc # "generated" /\ results = <<>>
    /\ pc = "generated" => \A c \in Border : Returned[c] = WALL

\* cells the carving leaves EMPTY: the rooms and a spanning tree of connectors
CarvedCells == 2 * Cardinality(Rooms) - 1

GridShape ==
    OddDims /\ pc \in {"visit", "loops", "generated"} =>
        /\ DOMAIN maze = Rect(width, height)
        /\ \A c \in DOMAIN maze : maze[c] \in {WALL, EMPTY}
        /\ \A c \in Border : maze[c] = WALL
        /\ pc = "visit" => Cardinality(EmptyCells(maze)) <= CarvedCells
        /\ pc # "visit" =>
              /\ loop_i <= loops
              /\ Cardinality(EmptyCells(maze)) <= CarvedCells + loop_i
        /\ pc = "generated" => Returned = maze

(* C10: for odd sizes of at least 3, in every state of generate_maze and in *)
(* the grid it returns, the grid has one state for each cell of the         *)
(* rectangle and no other key, the outer border is WALL, loops = L opens at *)
(* most L cells beyond the carving, and no step turns EMPTY back to WALL.   *)
GridStaysWellFormed ==
    /\ []GridShape
    /\ [][OddDims /\ pc \in {"visit", "loops"} =>
            \A c \in DOMAIN maze :
                maze[c] = EMPTY => c \in DOMAIN maze' /\ maze'[c] = EMPTY]_vars

\* the loop iteration opened a wall
GridWitness ==
    /\ pc = "generated" /\ OddDims
    /\ width = 5 /\ height = 5
    /\ loops >= 1
    /\ Cardinality(EmptyCells(maze)) = CarvedCells + 1

----------------------------------------------------------------------------
(* Properties of the pipeline *)

PipeSolving == pc \in {"bfs", "bfs_loop", "bfs_walk"} \/ BfsReturned

EndsMeet(p) == p # <<>> /\ p[1] = <<1, 1>> /\ p[Len(p)] = <<width - 2, height - 2>>

(* C8: for odd sizes of at least 3, every seed and every loop count, the    *)
(* generated grid has (1,1) and (width-2, height-2) EMPTY and connected,     *)
(* and bfs, dfs and astar each return a non-empty path from the one to the   *)
(* other.                                                                    *)
PipelineFindsPaths ==
    /\ pc = "generated" /\ OddDims =>
          /\ maze[<<1, 1>>] = EMPTY
          /\ maze[<<width - 2, height - 2>>] = EMPTY
          /\ <<width - 2, height - 2>> \in Flood({<<1, 1>>}, {<<1, 1>>}, EmptyCells(maze))
    /\ PipeSolving /\ OddDims =>
          /\ start = <<1, 1>> /\ goal = <<width - 2, height - 2>>
          /\ BfsReturned => EndsMeet(bfs_path)
          /\ DfsReturned => EndsMeet(dfs_path)
          /\ AstarReturned => EndsMeet(astar_path)

PipelineWitness ==
    /\ pc = "done"
    /\ width = 5 /\ height = 5 /\ loops = 1
    /\ Len(bfs_path) = 5
    /\ dfs_path # bfs_path
    /\ Len(rendered) = 3

----------------------------------------------------------------------------
(* Properties of render_maze *)

\* the lines of a text, and what follows its last newline
RECURSIVE LinesOf(_, _, _)
LinesOf(t, cur, acc) ==
    IF t = <<>> THEN <<acc, cur>>
    ELSE IF Head(t) = NEWLINE THEN LinesOf(Tail(t), <<>>, Append(acc, cur))
    ELSE LinesOf(Tail(t), Append(cur, Head(t)), acc)

\* START, then GOAL, then the path marker, then WALL, then EMPTY
ExpectedSymbol(c) ==
    IF c = start THEN START
    ELSE IF c = goal THEN END
    ELSE IF path # NonePath /\ InPath(path, c) THEN PATHMARK
    ELSE IF maze[c] = WALL THEN WALL
    ELSE EMPTY

(* C6: render_maze gives height rows of width symbols, and the symbol of    *)
(* cell (x, y) is START if the cell is start, else GOAL if it is goal, else  *)
(* the path marker if it is in path, else WALL if the grid cell is WALL,     *)
(* else EMPTY.                                                               *)
RenderPrecedence ==
    pc = "rendered" =>
        LET r == LinesOf(rendered[Len(rendered)], <<>>, <<>>) IN
        /\ r[2] = <<>>
        /\ Len(r[1]) = height
        /\ \A y \in 0 .. height - 1 :
              /\ Len(r[1][y + 1]) = width
              /\ \A x \in 0 .. width - 1 :
                    r[1][y + 1][x + 1] = ExpectedSymbol(<<x, y>>)

\* the path runs over start and over a WALL cell that is neither start nor goal
RenderWitness ==
    /\ pc = "rendered"
    /\ start # NoneV /\ goal # NoneV /\ start # goal
    /\ path # NonePath /\ InPath(path, start)
    /\ \E i \in 1 .. Len(path) : path[i] \notin {start, goal} /\ maze[path[i]] = WALL

----------------------------------------------------------------------------
(* Properties of the solvers *)

(* C1: every non-empty path returned by bfs, dfs or astar starts at start,  *)
(* ends at goal, moves between 4-adjacent cells and holds no WALL cell.     *)
PathValidity ==
    /\ BfsReturned /\ bfs_path # <<>> => ValidPath(bfs_path)
    /\ DfsReturned /\ dfs_path # <<>> => ValidPath(dfs_path)
    /\ AstarReturned /\ astar_path # <<>> => ValidPath(astar_path)

(* C2: when goal cannot be reached from start, each solver returns the     *)
(* empty path.                                                              *)
UnreachableGivesEmptyPath ==
    HopDist < 0 =>
        /\ BfsReturned => bfs_path = <<>>
        /\ DfsReturned => dfs_path = <<>>
        /\ AstarReturned => astar_path = <<>>

(* C3: when goal is reachable from start, bfs returns a valid path with    *)
(* the minimum number of cells, astar returns a valid path of the same      *)
(* length and the valid path of dfs is at least as long.                    *)
ShortestPathEquivalence ==
    pc = "solved" /\ Reachable =>
        /\ ValidPath(bfs_path) /\ ValidPath(dfs_path) /\ ValidPath(astar_path)
        /\ Len(bfs_path) = HopDist + 1
        /\ Len(astar_path) = Len(bfs_path)
        /\ Len(dfs_path) >= Len(bfs_path)

\* a cell has two entries in the heap: it was pushed again at a cheaper cost
Repushed == \E i, j \in 1 .. Len(open_set) :
               i # j /\ open_set[i][2] = open_set[j][2]

ShortestPathWitness ==
    /\ pc = "solved" /\ Reachable
    /\ WallCount(maze) >= 1
    /\ Len(dfs_path) > Len(bfs_path)
    /\ astar_path # bfs_path

\* following predecessors from n ends at None within k steps
RECURSIVE ChainEnds(_, _)
ChainEnds(n, k) ==
    \/ n = NoneV
    \/ k > 0 /\ ChainEnds(Get(parents, n), k - 1)

NoParentCycle ==
    \A n \in DOMAIN parents : ChainEnds(n, Cardinality(DOMAIN parents))

AstarRunning == pc \in {"astar_loop", "astar_walk", "solved"}

\* start has no predecessor and every other cell costs more than its predecessor
AstarParentsInv ==
    AstarRunning =>
        /\ parents[start] = NoneV
        /\ DOMAIN parents = DOMAIN g
        /\ \A n \in DOMAIN parents \ {start} :
              parents[n] \in DOMAIN g /\ g[parents[n]] + 1 <= g[n]

\* the sum of the costs so far
RECURSIVE CostSum(_)
CostSum(S) ==
    IF S = {} THEN 0
    ELSE LET c == CHOOSE x \in S : TRUE IN g[c] + CostSum(S \ {c})

NCells == Cardinality(DOMAIN maze \cup {start})

\* number of predecessor steps from n to None, at most k
RECURSIVE ChainLen(_, _)
ChainLen(n, k) ==
    IF n = NoneV \/ k = 0 THEN 0 ELSE 1 + ChainLen(Get(parents, n), k - 1)

\* what is left of the running loop
LoopMeasure ==
    CASE pc = "bfs_loop" -> NCells - Cardinality(DOMAIN parents) + Len(queue)
      [] pc = "dfs_loop" -> NCells - Cardinality(DOMAIN parents) + Len(stack)
      [] pc = "astar_loop" ->
            \* a cell not yet seen counts as NCells, above every cost
            5 * (CostSum(DOMAIN g) + (NCells - Cardinality(DOMAIN g)) * NCells)
            + Len(open_set)
      [] pc \in {"bfs_walk", "dfs_walk", "astar_walk"} ->
            ChainLen(node, NCells + 1)
      [] OTHER -> 0

PhaseRank ==
    CASE pc = "bfs" -> 9 [] pc = "bfs_loop" -> 8 [] pc = "bfs_walk" -> 7
      [] pc = "dfs" -> 6 [] pc = "dfs_loop" -> 5 [] pc = "dfs_walk" -> 4
      [] pc = "astar" -> 3 [] pc = "astar_loop" -> 2 [] pc = "astar_walk" -> 1
      [] OTHER -> 0

\* a natural number that every step of a solver lowers
Variant == PhaseRank * (6 * NCells * NCells + 1) + LoopMeasure

====
